---- MODULE Spec2Model ----
(***************************************************************************)
(* Model of the response-correlation core of tower-lsp:                    *)
(*   crates/tower-lsp/src/service/client/pending.rs  PendingClientRequests *)
(*   crates/tower-lsp/src/service/client/socket.rs   ClientSocket halves   *)
(* Every call on the pending table is split at the points where other      *)
(* tasks can interleave: DashMap::entry takes the write lock of the key's  *)
(* shard, the match arm works under that lock, and the oneshot send runs   *)
(* with or without the lock depending on the arm.                          *)
(* The JSON-RPC envelopes of crates/json-rpc (version.rs, request.rs,      *)
(* notification.rs, response.rs) are modelled as pure conversions between  *)
(* envelope values and JSON objects, applied to every input by the         *)
(* envelope specification.                                                 *)
(***************************************************************************)
EXTENDS Integers, Sequences, FiniteSets, TLC

\* ------------------------------------------------------------------ bounds
MaxHandles == 2
MaxSends == 2
MaxCalls == 1

\* ------------------------------------------------------------- value sets
Null == "null"
Ids == {Null, "n1", "n2"}
Payloads == {"foo", "bar"}
ResponseMessage == [id : Ids, kind : Payloads]
NoResponse == [id |-> "none", kind |-> "none"]

Tasks == {"t1", "t2"}
NoTask == "nobody"
\* in the socket specification t1 is the calling task and t2 drives the transport
Caller == "t1"
Transport == "t2"

\* State, in the order the dispatch layer moves through it
States == <<"Initialized", "ShutDown", "Exited">>
Exited == "Exited"

\* DashMap spreads its keys over shards by hash; each shard has one lock
NumShards == 2
HashOf(id) == CASE id = Null -> 0 [] id = "n1" -> 2 [] id = "n2" -> 1
ShardOf(id) == (HashOf(id) % NumShards) + 1

VARIABLES
    pending,      \* the DashMap: a function whose domain is the set of keys
    lock,         \* write lock of each DashMap shard: the holding task
    chans,        \* oneshot channels in creation order; handle h is chans[h]
    pc,           \* position of each task inside its current call
    loc,          \* locals of each task's current call
    lastWarn,     \* last diagnostic emitted by warn!: "none", "null" or the unknown id
    registered,   \* history: per identifier, handles in the order they entered the table
    popped,       \* history: per identifier, [h, r] in the order handles left the table
    state,        \* ServerState
    queue,        \* messages buffered in the mpsc channel behind rx
    sendersAlive, \* some mpsc Sender still exists
    rxInner,      \* Receiver.inner is Some (FALSE once rx has terminated)
    sentLog,      \* history: requests in the order they were sent
    yielded,      \* history: requests returned by poll_next as Some
    lastPoll,     \* result of the last ClientRequestStream::poll_next
    sinkLast,     \* result of the last ClientResponseSink operation
    env           \* the envelope conversion in progress: input, wire form, result

vars == <<pending, lock, chans, pc, loc, lastWarn, registered, popped, state,
          queue, sendersAlive, rxInner, sentLog, yielded, lastPoll, sinkLast, env>>

tableVars == <<pending, lock, chans, pc, loc, lastWarn, registered, popped>>
streamVars == <<queue, sendersAlive, rxInner, sentLog, yielded, lastPoll>>

NoLocals == [id |-> "none", h |-> 0, r |-> NoResponse, seen |-> "none", via |-> "none"]

\* ---------------------------------------------------------------- helpers
Range(s) == {s[i] : i \in 1..Len(s)}

Keys == DOMAIN pending

ShardFreeUnsynchronised(s) == TRUE

\* DashMap::entry blocks until the shard's write lock is free
ShardFree(s) == lock[s] = NoTask

IsOccupiedUnchecked(id) == TRUE

\* which arm of the match on self.0.entry(id) is taken
IsOccupied(id) == id \in Keys

IsNullIdNever(id) == FALSE

\* the arm Id::Null of the match on r.id()
IsNullId(id) == id = Null

\* dropping the entry (or unwinding past it) releases the shard
Release(t, lk) == [s \in DOMAIN lk |-> IF lk[s] = t THEN NoTask ELSE lk[s]]

\* Entry::Vacant(entry).insert(vec![tx])
InsertEntry(id, h) ==
    [k \in Keys \cup {id} |-> IF k = id THEN <<h>> ELSE pending[k]]

\* Entry::Occupied(entry): txs.push(tx)
PushEntry(id, h) ==
    [k \in Keys \cup {id} |->
        IF k = id THEN (IF id \in Keys THEN Append(pending[id], h) ELSE <<h>>)
        ELSE pending[k]]

RemoveEntryKeepKey(id) == [pending EXCEPT ![id] = <<>>]

\* entry.remove(): the key leaves the map
RemoveEntry(id) == [k \in Keys \ {id} |-> pending[k]]

TakeSenderLast(txs) == [tx |-> txs[Len(txs)], rest |-> SubSeq(txs, 1, Len(txs) - 1)]

\* Vec::remove(0): the first sender, and the vector that remains
TakeSender(txs) == [tx |-> Head(txs), rest |-> Tail(txs)]

\* entry.get_mut().remove(0): the key stays with the rest of the list
RemoveFirst(id) == [pending EXCEPT ![id] = TakeSender(pending[id]).rest]

FulfilLost(h, r) == chans

FulfilDefault(h, r) ==
    [chans EXCEPT ![h].rx = "resolved", ![h].val = [id |-> r.id, kind |-> "foo"]]

\* oneshot Sender::send with a live receiver: the receiver's future yields r
Fulfil(h, r) == [chans EXCEPT ![h].rx = "resolved", ![h].val = r]

EntryLen(id) == IF id \in Keys THEN Len(pending[id]) ELSE 0

\* ------------------------------------------------------------ JSON values
\* a JSON value is its type and its content; a JSON object is the sequence
\* of its entries in document order
JNull == [t |-> "null", v |-> "null"]
JNum(n) == [t |-> "num", v |-> n]
JStr(s) == [t |-> "str", v |-> s]
JObj(o) == [t |-> "obj", v |-> o]
JBool(b) == [t |-> "bool", v |-> b]
Entry(k, j) == [k |-> k, v |-> j]

\* the two results of a deserialization
NoError == [kind |-> "none", got |-> "none", expected |-> "none"]
Ok(x) == [ok |-> TRUE, val |-> x, err |-> NoError]
Err(kind, got, expected) ==
    [ok |-> FALSE, val |-> "none", err |-> [kind |-> kind, got |-> got, expected |-> expected]]
NoResult == Err("none", "none", "none")

\* ---------------------------------------------------------------- Version
JSON_RPC_VERSION_STR == "2.0"

\* impl Serialize for Version
SerializeVersion == JStr(JSON_RPC_VERSION_STR)

DeserializeVersionAnyString(j) ==
    IF j.t # "str" THEN Err("invalid_type", j.t, "str") ELSE Ok("Version")

\* impl Deserialize for Version: a string, and then exactly "2.0"
DeserializeVersion(j) ==
    IF j.t # "str" THEN Err("invalid_type", j.t, "str")
    ELSE IF j.v = JSON_RPC_VERSION_STR THEN Ok("Version")
    ELSE Err("unknown_variant", j.v, JSON_RPC_VERSION_STR)

\* ------------------------------------------------------------ identifiers
Number(n) == [variant |-> "Number", val |-> n]
String(s) == [variant |-> "String", val |-> s]
NullId == [variant |-> "Null", val |-> "null"]

\* NumberOrString, the identifier of a request
NumberOrString == {Number("0"), String("a")}

\* enum ResponseId
ResponseId == NumberOrString \cup {NullId}

\* untagged: a number, a string, or null
SerializeId(id) ==
    CASE id.variant = "Number" -> JNum(id.val)
      [] id.variant = "String" -> JStr(id.val)
      [] id.variant = "Null" -> JNull

DeserializeNumberOrString(j) ==
    CASE j.t = "num" -> Ok(Number(j.v))
      [] j.t = "str" -> Ok(String(j.v))
      [] OTHER -> Err("no_variant_matched", j.t, "NumberOrString")

\* untagged: the first variant the value fits
DeserializeResponseId(j) ==
    CASE j.t = "num" -> Ok(Number(j.v))
      [] j.t = "str" -> Ok(String(j.v))
      [] j.t = "null" -> Ok(NullId)
      [] OTHER -> Err("no_variant_matched", j.t, "ResponseId")

\* ----------------------------------------------------- method descriptors
\* the descriptors the crate's tests use: a request with structured params
\* and an optional result, a request whose Params and Result are the unit
\* type, and a notification
RequestDescs == {"WillRenameFiles", "Shutdown"}
NotificationDescs == {"Cancel"}

METHOD == [WillRenameFiles |-> "workspace/willRenameFiles",
           Shutdown |-> "shutdown",
           Cancel |-> "$/cancelRequest"]

ParamsType == [WillRenameFiles |-> "RenameFilesParams",
               Shutdown |-> "unit",
               Cancel |-> "CancelParams"]

ResultType == [WillRenameFiles |-> "OptionWorkspaceEdit", Shutdown |-> "unit"]

\* the values of a params, result or error type
ValuesOf(ty) ==
    CASE ty = "unit" -> {"()"}
      [] ty = "RenameFilesParams" -> {"files0", "files1"}
      [] ty = "CancelParams" -> {"cancel0", "cancel1"}
      [] ty = "OptionWorkspaceEdit" -> {"None", "edit0"}
      [] ty = "Error" -> {"err0", "err1"}

\* serde's form of a value: unit and None are null, a struct is an object
ToJson(ty, x) == IF ty = "unit" \/ x = "None" THEN JNull ELSE JObj(x)

FromJson(ty, j) ==
    IF ty = "unit"
    THEN (IF j = JNull THEN Ok("()") ELSE Err("invalid_type", j.t, ty))
    ELSE IF ty = "OptionWorkspaceEdit" /\ j = JNull THEN Ok("None")
    ELSE IF j.t = "obj" /\ j.v \in ValuesOf(ty) \ {"None"} THEN Ok(j.v)
    ELSE Err("invalid_type", j.t, ty)

\* Option<T>: <<>> is None and <<x>> is Some(x)
OptionsOf(ty) == {<<>>} \cup {<<x>> : x \in ValuesOf(ty)}

\* Some(x) serializes as x does, None as null
SerializeOption(ty, o) == IF o = <<>> THEN JNull ELSE ToJson(ty, o[1])

\* null is None whatever T is; anything else must be a T
DeserializeOption(ty, j) ==
    IF j = JNull THEN Ok(<<>>)
    ELSE IF FromJson(ty, j).ok THEN Ok(<<FromJson(ty, j).val>>)
    ELSE FromJson(ty, j)

\* -------------------------------------------------------------- envelopes
RequestEnvelopes(d) == [id : NumberOrString, params : OptionsOf(ParamsType[d])]
NotificationEnvelopes(d) == [params : OptionsOf(ParamsType[d])]
Outcomes(d) ==
    {[tag |-> "Ok", val |-> r] : r \in ValuesOf(ResultType[d])}
      \cup {[tag |-> "Err", val |-> e] : e \in ValuesOf("Error")}
ResponseEnvelopes(d) == [id : ResponseId, kind : Outcomes(d)]

SerializeRequestNullParams(d, x) ==
    <<Entry("jsonrpc", SerializeVersion),
      Entry("id", SerializeId(x.id)),
      Entry("method", JStr(METHOD[d])),
      Entry("params", SerializeOption(ParamsType[d], x.params))>>

\* impl Serialize for RequestMessage
SerializeRequest(d, x) ==
    <<Entry("jsonrpc", SerializeVersion),
      Entry("id", SerializeId(x.id)),
      Entry("method", JStr(METHOD[d]))>>
    \o (IF x.params # <<>>
        THEN <<Entry("params", SerializeOption(ParamsType[d], x.params))>>
        ELSE <<>>)

\* impl Serialize for NotificationMessage
SerializeNotification(d, x) ==
    <<Entry("jsonrpc", SerializeVersion),
      Entry("method", JStr(METHOD[d]))>>
    \o (IF x.params # <<>>
        THEN <<Entry("params", SerializeOption(ParamsType[d], x.params))>>
        ELSE <<>>)

SerializeResponseAsResult(d, x) ==
    <<Entry("jsonrpc", SerializeVersion),
      Entry("id", SerializeId(x.id)),
      Entry("result", IF x.kind.tag = "Ok" THEN ToJson(ResultType[d], x.kind.val)
                      ELSE ToJson("Error", x.kind.val))>>

\* impl Serialize for ResponseMessage
SerializeResponse(d, x) ==
    <<Entry("jsonrpc", SerializeVersion),
      Entry("id", SerializeId(x.id)),
      IF x.kind.tag = "Ok"
      THEN Entry("result", ToJson(ResultType[d], x.kind.val))
      ELSE Entry("error", ToJson("Error", x.kind.val))>>

\* the named fields of the structs derive(Deserialize) is applied to
FieldsOf(kind) ==
    CASE kind = "request" -> <<"jsonrpc", "id", "method", "params">>
      [] kind = "notification" -> <<"jsonrpc", "method", "params">>
      [] kind = "response" -> <<"jsonrpc", "id">>

\* the fields that are not an Option, in declaration order
RequiredOf(kind) ==
    CASE kind = "request" -> <<"jsonrpc", "id", "method">>
      [] kind = "notification" -> <<"jsonrpc", "method">>
      [] kind = "response" -> <<"jsonrpc", "id">>

\* the Deserialize of the type of field k
DecodeField(kind, d, k, j) ==
    CASE k = "jsonrpc" -> DeserializeVersion(j)
      [] k = "id" -> (IF kind = "response" THEN DeserializeResponseId(j)
                      ELSE DeserializeNumberOrString(j))
      [] k = "method" -> (IF j.t = "str" THEN Ok(j.v) ELSE Err("invalid_type", j.t, "str"))
      [] k = "params" -> DeserializeOption(ParamsType[d], j)

NoFields == [k \in {} |-> "none"]
Put(acc, k, x) == [f \in DOMAIN acc \cup {k} |-> IF f = k THEN x ELSE acc[f]]

\* the derived visit_map: the entries in document order, a key that is no
\* field skipped, the first field that fails to decode ends the visit
RECURSIVE VisitMap(_, _, _, _)
VisitMap(kind, d, w, acc) ==
    IF w = <<>> THEN Ok(acc)
    ELSE IF Head(w).k \notin Range(FieldsOf(kind)) THEN VisitMap(kind, d, Tail(w), acc)
    ELSE IF Head(w).k \in DOMAIN acc THEN Err("duplicate_field", Head(w).k, "none")
    ELSE IF ~DecodeField(kind, d, Head(w).k, Head(w).v).ok
         THEN DecodeField(kind, d, Head(w).k, Head(w).v)
    ELSE VisitMap(kind, d, Tail(w),
                  Put(acc, Head(w).k, DecodeField(kind, d, Head(w).k, Head(w).v).val))

\* after the visit: the first required field that no entry gave
Missing(kind, acc) == SelectSeq(RequiredOf(kind), LAMBDA f : f \notin DOMAIN acc)

\* derive(Deserialize) on RequestMessageDom, NotificationMessageDom and the
\* named fields of ResponseMessageDom
DeserializeDom(kind, d, w) ==
    IF ~VisitMap(kind, d, w, NoFields).ok THEN VisitMap(kind, d, w, NoFields)
    ELSE IF Missing(kind, VisitMap(kind, d, w, NoFields).val) # <<>>
         THEN Err("missing_field", Head(Missing(kind, VisitMap(kind, d, w, NoFields).val)), "none")
    ELSE VisitMap(kind, d, w, NoFields)

\* an Option field that no entry gave is None
ParamsOf(acc) == IF "params" \in DOMAIN acc THEN acc["params"] ELSE <<>>

MethodCheckSkipped(received, expected) == TRUE

\* the comparison dom.method != R::METHOD
MethodCheck(received, expected) == received = expected

\* impl Deserialize for RequestMessage
DeserializeRequest(d, w) ==
    LET dom == DeserializeDom("request", d, w) IN
    IF ~dom.ok THEN dom
    ELSE IF ~MethodCheck(dom.val["method"], METHOD[d])
         THEN Err("unknown_variant", dom.val["method"], METHOD[d])
    ELSE Ok([id |-> dom.val["id"], params |-> ParamsOf(dom.val)])

\* impl Deserialize for NotificationMessage
DeserializeNotification(d, w) ==
    LET dom == DeserializeDom("notification", d, w) IN
    IF ~dom.ok THEN dom
    ELSE IF ~MethodCheck(dom.val["method"], METHOD[d])
         THEN Err("unknown_variant", dom.val["method"], METHOD[d])
    ELSE Ok([params |-> ParamsOf(dom.val)])

\* serde(flatten): the entries that are no named field, in document order
Collected(w) == SelectSeq(w, LAMBDA e : e.k \notin Range(FieldsOf("response")))

\* enum ResultDom read from the flattened entries: the first entry whose key
\* is a variant name decides, the entries after it are not looked at
RECURSIVE DeserializeResultDom(_, _)
DeserializeResultDom(d, c) ==
    IF c = <<>> THEN Err("no_variant_in_flattened_data", "none", "result|error")
    ELSE IF Head(c).k = "result"
         THEN (IF FromJson(ResultType[d], Head(c).v).ok
               THEN Ok([tag |-> "Ok", val |-> FromJson(ResultType[d], Head(c).v).val])
               ELSE FromJson(ResultType[d], Head(c).v))
    ELSE IF Head(c).k = "error"
         THEN (IF FromJson("Error", Head(c).v).ok
               THEN Ok([tag |-> "Err", val |-> FromJson("Error", Head(c).v).val])
               ELSE FromJson("Error", Head(c).v))
    ELSE DeserializeResultDom(d, Tail(c))

\* impl Deserialize for ResponseMessage
DeserializeResponse(d, w) ==
    LET dom == DeserializeDom("response", d, w)
        kind == DeserializeResultDom(d, Collected(w))
    IN  IF ~dom.ok THEN dom
        ELSE IF ~kind.ok THEN kind
        ELSE Ok([id |-> dom.val["id"], kind |-> kind.val])

Serialize(kind, d, x) ==
    CASE kind = "request" -> SerializeRequest(d, x)
      [] kind = "notification" -> SerializeNotification(d, x)
      [] kind = "response" -> SerializeResponse(d, x)

Deserialize(kind, d, w) ==
    CASE kind = "request" -> DeserializeRequest(d, w)
      [] kind = "notification" -> DeserializeNotification(d, w)
      [] kind = "response" -> DeserializeResponse(d, w)

\* --------------------------------------------- inputs of the conversions
Kinds == {"request", "notification", "response"}
DescsOf(kind) == IF kind = "notification" THEN NotificationDescs ELSE RequestDescs

EnvelopesOf(kind, d) ==
    CASE kind = "request" -> RequestEnvelopes(d)
      [] kind = "notification" -> NotificationEnvelopes(d)
      [] kind = "response" -> ResponseEnvelopes(d)

\* a key an input object does not have
Absent == [t |-> "absent", v |-> "absent"]

\* what an input object can hold under each key
Candidates(k) ==
    CASE k = "jsonrpc" -> {Absent, JStr("2.0"), JStr("1.0"), JNum("2")}
      [] k = "id" -> {Absent, JNum("0"), JStr("a"), JNull, JBool("true")}
      [] k = "method" -> {Absent, JNum("0")}
                           \cup {JStr(METHOD[d]) : d \in RequestDescs \cup NotificationDescs}
      [] k = "params" -> {Absent, JNull, JObj("files0"), JObj("cancel0"), JNum("0")}
      [] k = "result" -> {Absent, JNull, JObj("edit0"), JNum("0")}
      [] k = "error" -> {Absent, JObj("err0"), JNum("0")}

\* document orders: the order the serializers emit, the sorted order of a
\* serde_json map, and a reversed order
KeyOrders(kind) ==
    CASE kind = "request" -> {<<"jsonrpc", "id", "method", "params">>,
                              <<"id", "jsonrpc", "method", "params">>,
                              <<"params", "method", "id", "jsonrpc">>}
      [] kind = "notification" -> {<<"jsonrpc", "method", "params">>,
                                   <<"params", "method", "jsonrpc">>}
      [] kind = "response" -> {<<"jsonrpc", "id", "result", "error">>,
                               <<"error", "id", "jsonrpc", "result">>}

AllCandidates == UNION {Candidates(k) : k \in {"jsonrpc", "id", "method", "params", "result", "error"}}

Choices(o) == {c \in [Range(o) -> AllCandidates] : \A k \in Range(o) : c[k] \in Candidates(k)}

WireOf(o, c) ==
    SelectSeq([i \in 1..Len(o) |-> Entry(o[i], c[o[i]])], LAMBDA e : e.v # Absent)

WireObjects(kind) == UNION {{WireOf(o, c) : c \in Choices(o)} : o \in KeyOrders(kind)}

EnvOf(kind, d, op, x, w) ==
    [kind |-> kind, desc |-> d, op |-> op, x |-> x, wire |-> w, out |-> NoResult]

\* no envelope value: an input object carries none
NoValue == [none |-> "none"]

NoEnvelope == EnvOf("none", "none", "none", NoValue, <<>>)

\* every envelope value to serialize and every input object to deserialize,
\* for every kind and descriptor
EnvelopeInputs ==
    UNION {UNION {{EnvOf(kind, d, "value", x, <<>>) : x \in EnvelopesOf(kind, d)}
                    \cup {EnvOf(kind, d, "wire", NoValue, w) : w \in WireObjects(kind)}
                  : d \in DescsOf(kind)}
           : kind \in Kinds}

\* serde_json::to_value(x)
SerializeEnvelope ==
    /\ env.op = "value"
    /\ env' = [env EXCEPT !.op = "serialized",
                          !.wire = Serialize(env.kind, env.desc, env.x)]
    /\ UNCHANGED <<tableVars, streamVars, state, sinkLast>>

\* serde_json::from_value(w) of an input object
DeserializeEnvelope ==
    /\ env.op = "wire"
    /\ env' = [env EXCEPT !.op = "decoded",
                          !.out = Deserialize(env.kind, env.desc, env.wire)]
    /\ UNCHANGED <<tableVars, streamVars, state, sinkLast>>

\* serde_json::from_value of what to_value produced
DeserializeSerialized ==
    /\ env.op = "serialized"
    /\ env' = [env EXCEPT !.op = "roundtrip",
                          !.out = Deserialize(env.kind, env.desc, env.wire)]
    /\ UNCHANGED <<tableVars, streamVars, state, sinkLast>>

\* --------------------------------------------------------------- initial
\* the socket and its table after construction
SocketInit ==
    /\ pending = [k \in {} |-> <<>>]
    /\ lock = [s \in 1..NumShards |-> NoTask]
    /\ chans = <<>>
    /\ pc = [t \in Tasks |-> "idle"]
    /\ loc = [t \in Tasks |-> NoLocals]
    /\ lastWarn = "none"
    /\ registered = [id \in Ids |-> <<>>]
    /\ popped = [id \in Ids |-> <<>>]
    /\ state = States[1]
    /\ queue = <<>>
    /\ sendersAlive = TRUE
    /\ rxInner = TRUE
    /\ sentLog = <<>>
    /\ yielded = <<>>
    /\ lastPoll = "none"
    /\ sinkLast = "none"

\* no conversion in progress
Init == SocketInit /\ env = NoEnvelope

\* ------------------------------------------- PendingClientRequests calls
\* await_response, line 48: oneshot::channel()
AwaitResponse(t, id) ==
    /\ pc[t] = "idle"
    /\ Len(chans) < MaxHandles
    /\ chans' = Append(chans, [id |-> id, rx |-> "waiting", val |-> NoResponse])
    /\ loc' = [loc EXCEPT ![t] = [NoLocals EXCEPT !.id = id, !.h = Len(chans) + 1]]
    /\ pc' = [pc EXCEPT ![t] = "aw_entry"]
    /\ UNCHANGED <<pending, lock, lastWarn, registered, popped, state, sinkLast>>
    /\ UNCHANGED streamVars
    /\ UNCHANGED env

\* await_response, line 50: self.0.entry(id)
AwaitEntry(t) ==
    /\ pc[t] = "aw_entry"
    /\ ShardFree(ShardOf(loc[t].id))
    /\ lock' = [lock EXCEPT ![ShardOf(loc[t].id)] = t]
    /\ loc' = [loc EXCEPT ![t].seen =
                 IF IsOccupied(loc[t].id) THEN "Occupied" ELSE "Vacant"]
    /\ pc' = [pc EXCEPT ![t] = "aw_insert"]
    /\ UNCHANGED <<pending, chans, lastWarn, registered, popped, state, sinkLast>>
    /\ UNCHANGED streamVars
    /\ UNCHANGED env

\* await_response, lines 51-61: insert or push, drop the entry, return the future
AwaitInsert(t) ==
    /\ pc[t] = "aw_insert"
    /\ pending' = IF loc[t].seen = "Vacant"
                  THEN InsertEntry(loc[t].id, loc[t].h)
                  ELSE PushEntry(loc[t].id, loc[t].h)
    /\ lock' = Release(t, lock)
    /\ registered' = [registered EXCEPT ![loc[t].id] = Append(@, loc[t].h)]
    /\ loc' = [loc EXCEPT ![t] = NoLocals]
    /\ pc' = [pc EXCEPT ![t] = "idle"]
    /\ UNCHANGED <<chans, lastWarn, popped, state, sinkLast>>
    /\ UNCHANGED streamVars
    /\ UNCHANGED env

DropFutureRetracting(h) ==
    /\ h \in Range(registered[chans[h].id])
    /\ chans[h].rx = "waiting"
    /\ chans' = [chans EXCEPT ![h].rx = "dropped"]
    /\ pending' = [k \in {i \in Keys : pending[i] # <<h>>} |->
                      SelectSeq(pending[k], LAMBDA x : x # h)]
    /\ UNCHANGED <<lock, pc, loc, lastWarn, registered, popped, state, sinkLast>>
    /\ UNCHANGED streamVars
    /\ UNCHANGED env

\* the caller drops the future returned by await_response before it resolves
DropFuture(h) ==
    /\ h \in Range(registered[chans[h].id])
    /\ chans[h].rx = "waiting"
    /\ chans' = [chans EXCEPT ![h].rx = "dropped"]
    /\ UNCHANGED <<pending, lock, pc, loc, lastWarn, registered, popped, state, sinkLast>>
    /\ UNCHANGED streamVars
    /\ UNCHANGED env

\* start_send, line 91: Ok(()) once the register_response it called has returned
SinkAfter(t) == IF loc[t].via = "sink" THEN "sent" ELSE sinkLast

SinkDuringBuffered(via) == IF via = "sink" THEN "sent" ELSE sinkLast

\* start_send, line 90: the register_response it calls has not returned yet
SinkDuring(via) == IF via = "sink" THEN "sending" ELSE sinkLast

\* register_response, lines 25-27: match r.id()
BeginRegister(t, r, via) ==
    /\ pc[t] = "idle"
    /\ IF IsNullId(r.id)
       THEN /\ lastWarn' = "null"
            /\ sinkLast' = IF via = "sink" THEN "sent" ELSE sinkLast
            /\ UNCHANGED <<pc, loc>>
       ELSE /\ lastWarn' = lastWarn
            /\ sinkLast' = SinkDuring(via)
            /\ loc' = [loc EXCEPT ![t] = [NoLocals EXCEPT !.id = r.id, !.r = r, !.via = via]]
            /\ pc' = [pc EXCEPT ![t] = "rr_entry"]

\* register_response called on the shared table by any task
RegisterResponse(t, r) ==
    /\ BeginRegister(t, r, "direct")
    /\ UNCHANGED <<pending, lock, chans, registered, popped, state>>
    /\ UNCHANGED streamVars
    /\ UNCHANGED env

\* register_response, lines 27-29: self.0.entry(id.clone())
RegisterEntry(t) ==
    /\ pc[t] = "rr_entry"
    /\ ShardFree(ShardOf(loc[t].id))
    /\ IF IsOccupied(loc[t].id)
       THEN /\ lock' = [lock EXCEPT ![ShardOf(loc[t].id)] = t]
            /\ pc' = [pc EXCEPT ![t] = "rr_pop"]
            /\ UNCHANGED <<loc, lastWarn, sinkLast>>
       ELSE /\ lastWarn' = loc[t].id
            /\ sinkLast' = SinkAfter(t)
            /\ loc' = [loc EXCEPT ![t] = NoLocals]
            /\ pc' = [pc EXCEPT ![t] = "idle"]
            /\ lock' = lock
    /\ UNCHANGED <<pending, chans, registered, popped, state>>
    /\ UNCHANGED streamVars
    /\ UNCHANGED env

\* register_response, lines 30-34: take the first sender out of the entry
RegisterPop(t) ==
    /\ pc[t] = "rr_pop"
    /\ LET id == loc[t].id
           len == EntryLen(id)
       IN  IF len = 0
           THEN \* Vec::remove(0) on an empty vector panics; unwinding drops the entry
                /\ pc' = [pc EXCEPT ![t] = "panicked"]
                /\ loc' = [loc EXCEPT ![t] = NoLocals]
                /\ lock' = Release(t, lock)
                /\ UNCHANGED <<pending, popped>>
           ELSE /\ loc' = [loc EXCEPT ![t].h = TakeSender(pending[id]).tx]
                /\ popped' = [popped EXCEPT ![id] =
                                Append(@, [h |-> TakeSender(pending[id]).tx, r |-> loc[t].r])]
                /\ pc' = [pc EXCEPT ![t] = "rr_send"]
                /\ IF len = 1
                   THEN /\ pending' = RemoveEntry(id)
                        /\ lock' = Release(t, lock)
                   ELSE /\ pending' = RemoveFirst(id)
                        /\ lock' = lock
    /\ UNCHANGED <<chans, lastWarn, registered, state, sinkLast>>
    /\ UNCHANGED streamVars
    /\ UNCHANGED env

OnSendErrorIgnored == "idle"

\* register_response, line 36: expect("receiver already dropped") on a failed send
OnSendError == "panicked"

\* register_response, line 36: tx.send(r).expect("receiver already dropped")
RegisterSend(t) ==
    /\ pc[t] = "rr_send"
    /\ IF chans[loc[t].h].rx = "waiting"
       THEN /\ chans' = Fulfil(loc[t].h, loc[t].r)
            /\ pc' = [pc EXCEPT ![t] = "idle"]
            /\ sinkLast' = SinkAfter(t)
       ELSE /\ chans' = chans
            /\ pc' = [pc EXCEPT ![t] = OnSendError]
            /\ sinkLast' = sinkLast
    /\ loc' = [loc EXCEPT ![t] = NoLocals]
    /\ lock' = Release(t, lock)
    /\ UNCHANGED <<pending, lastWarn, registered, popped, state>>
    /\ UNCHANGED streamVars
    /\ UNCHANGED env

\* ------------------------------------------------------ lifecycle state
StateRank(s) == CHOOSE i \in 1..Len(States) : States[i] = s

\* the dispatch layer moves the shared state forward
SetState(s) ==
    /\ StateRank(s) > StateRank(state)
    /\ state' = s
    /\ UNCHANGED tableVars
    /\ UNCHANGED streamVars
    /\ UNCHANGED sinkLast
    /\ UNCHANGED env

\* ------------------------------------------------- the mpsc channel of rx
\* Sender::send: a request with identifier id enters the channel
SendRequest(t, id) ==
    /\ pc[t] = "idle"
    /\ sendersAlive
    /\ Len(sentLog) < MaxSends
    /\ queue' = Append(queue, id)
    /\ sentLog' = Append(sentLog, id)
    /\ UNCHANGED <<sendersAlive, rxInner, yielded, lastPoll>>
    /\ UNCHANGED tableVars
    /\ UNCHANGED <<state, sinkLast>>
    /\ UNCHANGED env

\* the last Sender is dropped: the channel is closed
DropSenders ==
    /\ sendersAlive
    /\ sendersAlive' = FALSE
    /\ UNCHANGED <<queue, rxInner, sentLog, yielded, lastPoll>>
    /\ UNCHANGED tableVars
    /\ UNCHANGED <<state, sinkLast>>
    /\ UNCHANGED env

\* Receiver::is_terminated
RxIsTerminated == ~rxInner

RxPollNextEndsWhenEmpty ==
    IF queue # <<>>
    THEN [res |-> "Some", item |-> <<Head(queue)>>, q |-> Tail(queue), inner |-> TRUE]
    ELSE [res |-> "None", item |-> <<>>, q |-> queue, inner |-> TRUE]

\* Receiver::poll_next: a message, end of stream once closed and drained, or pending
RxPollNext ==
    IF ~rxInner THEN [res |-> "None", item |-> <<>>, q |-> queue, inner |-> FALSE]
    ELSE IF queue # <<>>
         THEN [res |-> "Some", item |-> <<Head(queue)>>, q |-> Tail(queue), inner |-> TRUE]
    ELSE IF ~sendersAlive
         THEN [res |-> "None", item |-> <<>>, q |-> queue, inner |-> FALSE]
    ELSE [res |-> "Pending", item |-> <<>>, q |-> queue, inner |-> TRUE]

\* ---------------------------------------------------- ClientRequestStream
PollNextResultDraining ==
    IF RxIsTerminated
    THEN [res |-> "None", item |-> <<>>, q |-> queue, inner |-> rxInner]
    ELSE RxPollNext

PollNextResultEndsWhenEmpty ==
    IF state = Exited \/ RxIsTerminated \/ queue = <<>>
    THEN [res |-> "None", item |-> <<>>, q |-> queue, inner |-> rxInner]
    ELSE RxPollNext

\* poll_next, lines 52-58
PollNextResult ==
    IF state = Exited \/ RxIsTerminated
    THEN [res |-> "None", item |-> <<>>, q |-> queue, inner |-> rxInner]
    ELSE RxPollNext

PollNextExiting ==
    /\ lastPoll' = PollNextResult.res
    /\ yielded' = yielded \o PollNextResult.item
    /\ queue' = PollNextResult.q
    /\ rxInner' = PollNextResult.inner
    /\ state' = IF PollNextResult.res = "None" THEN Exited ELSE state
    /\ UNCHANGED <<sendersAlive, sentLog>>
    /\ UNCHANGED tableVars
    /\ UNCHANGED sinkLast
    /\ UNCHANGED env

PollNext ==
    /\ lastPoll' = PollNextResult.res
    /\ yielded' = yielded \o PollNextResult.item
    /\ queue' = PollNextResult.q
    /\ rxInner' = PollNextResult.inner
    /\ UNCHANGED <<sendersAlive, sentLog>>
    /\ UNCHANGED tableVars
    /\ UNCHANGED <<state, sinkLast>>
    /\ UNCHANGED env

\* is_terminated, lines 66-68
IsTerminated == RxIsTerminated

\* ----------------------------------------------------- ClientResponseSink
PollReadyResultAlwaysOk == "ready_ok"

\* poll_ready, lines 81-87
PollReadyResult == IF state = Exited THEN "ready_err" ELSE "ready_ok"

PollReady ==
    /\ sinkLast # "sending"
    /\ sinkLast' = PollReadyResult
    /\ UNCHANGED tableVars
    /\ UNCHANGED streamVars
    /\ UNCHANGED state
    /\ UNCHANGED env

\* start_send, lines 89-92; Sink's contract: only after poll_ready returned Ok
StartSend(t, r) ==
    /\ sinkLast = "ready_ok"
    /\ BeginRegister(t, r, "sink")
    /\ UNCHANGED <<pending, lock, chans, registered, popped, state>>
    /\ UNCHANGED streamVars
    /\ UNCHANGED env

\* poll_flush, lines 94-96
PollFlush ==
    /\ sinkLast # "sending"
    /\ sinkLast' = "flushed"
    /\ UNCHANGED tableVars
    /\ UNCHANGED streamVars
    /\ UNCHANGED state
    /\ UNCHANGED env

PollCloseClearing ==
    /\ sinkLast # "sending"
    /\ sinkLast' = "closed"
    /\ pending' = [k \in {} |-> <<>>]
    /\ UNCHANGED <<lock, chans, pc, loc, lastWarn, registered, popped>>
    /\ UNCHANGED streamVars
    /\ UNCHANGED state
    /\ UNCHANGED env

\* poll_close, lines 98-100
PollClose ==
    /\ sinkLast # "sending"
    /\ sinkLast' = "closed"
    /\ UNCHANGED tableVars
    /\ UNCHANGED streamVars
    /\ UNCHANGED state
    /\ UNCHANGED env

\* ------------------------------------------------------- specifications
\* the pending table used concurrently by two tasks
TableNext ==
    \/ \E t \in Tasks, id \in Ids : AwaitResponse(t, id)
    \/ \E t \in Tasks : AwaitEntry(t)
    \/ \E t \in Tasks : AwaitInsert(t)
    \/ \E h \in 1..Len(chans) : DropFuture(h)
    \/ \E t \in Tasks, r \in ResponseMessage : RegisterResponse(t, r)
    \/ \E t \in Tasks : RegisterEntry(t)
    \/ \E t \in Tasks : RegisterPop(t)
    \/ \E t \in Tasks : RegisterSend(t)

Spec == Init /\ [][TableNext]_vars

\* the request stream alone: producers, the transport's polls, the dispatch layer
StreamNext ==
    \/ \E id \in Ids : SendRequest(Caller, id)
    \/ DropSenders
    \/ \E s \in Range(States) : SetState(s)
    \/ PollNext

StreamSpec == Init /\ [][StreamNext]_vars

\* identifiers a caller gives its requests: null is reserved for responses
\* whose request is unknown and is never used as a correlation key
CallIds == Ids \ {Null}

\* a server-to-client call: the request goes out on the stream and the caller
\* registers for the response, in either order
CallerSend(id) ==
    /\ Len(sentLog) < MaxCalls
    /\ SendRequest(Caller, id)

CallerAwait(id) ==
    /\ Len(chans) < MaxCalls
    /\ AwaitResponse(Caller, id)

\* the loopback socket: a calling task, the transport, the dispatch layer
SocketNext ==
    \/ \E id \in CallIds : CallerSend(id)
    \/ \E id \in CallIds : CallerAwait(id)
    \/ AwaitEntry(Caller)
    \/ AwaitInsert(Caller)
    \/ DropSenders
    \/ \E s \in Range(States) : SetState(s)
    \/ PollNext
    \/ PollReady
    \/ \E r \in ResponseMessage : StartSend(Transport, r)
    \/ RegisterEntry(Transport)
    \/ RegisterPop(Transport)
    \/ RegisterSend(Transport)
    \/ PollFlush
    \/ PollClose

SocketSpec == Init /\ [][SocketNext]_vars

\* the envelope conversions applied to every input
EnvelopeInit == SocketInit /\ env \in EnvelopeInputs

EnvelopeNext ==
    \/ SerializeEnvelope
    \/ DeserializeEnvelope
    \/ DeserializeSerialized

EnvelopeSpec == EnvelopeInit /\ [][EnvelopeNext]_vars

TypeOK ==
    /\ Keys \subseteq Ids
    /\ \A k \in Keys : \A i \in 1..Len(pending[k]) : pending[k][i] \in 1..Len(chans)
    /\ \A t \in Tasks : pc[t] \in {"idle", "aw_entry", "aw_insert", "rr_entry",
                                   "rr_pop", "rr_send", "panicked"}

\* ------------------------------------------------------------ properties
NonNullIds == Ids \ {Null}

\* the task, if any, that has popped h and not yet sent to it
Sending(h, r) == \E t \in Tasks : pc[t] = "rr_send" /\ loc[t].h = h /\ loc[t].r = r

InFlight(id) == \E t \in Tasks : pc[t] # "idle" /\ pc[t] # "panicked" /\ loc[t].id = id

\* C1: for a non-null identifier the n-th register_response that finds an
\* entry pops the n-th handle registered under the identifier, and that
\* handle's waiter receives the response of that call, whatever its payload.
C1_FifoCorrelation ==
    \A id \in NonNullIds :
        /\ Len(popped[id]) <= Len(registered[id])
        /\ \A n \in 1..Len(popped[id]) :
              LET p == popped[id][n] IN
              /\ p.h = registered[id][n]
              /\ \/ chans[p.h].rx = "resolved" /\ chans[p.h].val = p.r
                 \/ chans[p.h].rx = "waiting" /\ Sending(p.h, p.r)
                 \/ chans[p.h].rx = "dropped"

\* two waiters of one identifier resolved by two responses of different payload
C1_Witness ==
    \E id \in NonNullIds :
        /\ Len(registered[id]) = 2
        /\ Len(popped[id]) = 2
        /\ popped[id][1].r.kind # popped[id][2].r.kind
        /\ chans[registered[id][1]].rx = "resolved"
        /\ chans[registered[id][2]].rx = "resolved"

\* C2: after one await_response(id) and one register_response(msg) with
\* msg.id = id, both returned, the awaitable holds exactly msg: the same
\* identifier and the same payload.
C2_AwaitedEqualsRegistered ==
    \A id \in NonNullIds :
        (Len(registered[id]) = 1 /\ Len(popped[id]) = 1 /\ ~InFlight(id))
        => LET h == registered[id][1]
               msg == popped[id][1].r
           IN  \/ chans[h].rx = "dropped"
               \/ /\ chans[h].rx = "resolved"
                  /\ chans[h].val = msg
                  /\ chans[h].val.id = id
                  /\ chans[h].id = id

C2_Witness ==
    \E id \in NonNullIds :
        /\ Len(registered[id]) = 1
        /\ Len(popped[id]) = 1
        /\ ~InFlight(id)
        /\ chans[registered[id][1]].rx = "resolved"
        /\ chans[registered[id][1]].val.kind = "bar"

\* C3: no key of the table maps to an empty list, and an identifier is a key
\* exactly while some handle registered under it has not been popped: the
\* pop of the last handle removes the key.
C3_NoEmptyEntry ==
    \A id \in Ids :
        /\ id \in Keys => Len(pending[id]) >= 1
        /\ id \in Keys <=> Len(popped[id]) < Len(registered[id])

\* the last waiter of an identifier has been resolved and the key is gone
C3_Witness ==
    \E id \in NonNullIds :
        /\ Len(registered[id]) = 2
        /\ Len(popped[id]) = 2
        /\ id \notin Keys
        /\ chans[registered[id][2]].rx = "resolved"

\* C4: a register_response that reaches the entry lookup with a non-null
\* identifier that is not a key returns without panic, leaves the table and
\* every waiter as they were, and only emits the unknown-identifier warning.
C4_UnknownIdDiscarded ==
    [][\A t \in Tasks :
          (pc[t] = "rr_entry" /\ pc'[t] # "rr_entry" /\ loc[t].id \notin Keys)
          => /\ pc'[t] = "idle"
             /\ pending' = pending
             /\ chans' = chans
             /\ popped' = popped
             /\ lastWarn' = loc[t].id]_vars

\* a response for an unknown identifier was discarded while another
\* identifier had a waiter, which is still waiting
C4_Witness ==
    /\ lastWarn = "n1"
    /\ "n1" \notin Keys
    /\ "n2" \in Keys
    /\ \A t \in Tasks : pc[t] = "idle"
    /\ \A h \in 1..Len(chans) : chans[h].rx = "waiting"

\* C5: register_response with the null identifier changes neither the table
\* nor any waiter and does not panic, and handles registered under the null
\* identifier are never popped or resolved.
C5_NullIdDiscarded ==
    /\ [](/\ popped[Null] = <<>>
          /\ \A h \in 1..Len(chans) : chans[h].id = Null => chans[h].rx # "resolved"
          /\ \A t \in Tasks : pc[t] \in {"rr_entry", "rr_pop", "rr_send"} => loc[t].id # Null)
    /\ [][(lastWarn' = "null" /\ lastWarn # "null")
          => /\ pending' = pending
             /\ chans' = chans
             /\ pc' = pc
             /\ popped' = popped]_vars

\* a null response was discarded while a waiter is registered under null
C5_Witness ==
    /\ lastWarn = "null"
    /\ Null \in Keys
    /\ \E h \in 1..Len(chans) : chans[h].id = Null /\ chans[h].rx = "waiting"

\* senders created by an await_response that has not yet inserted them
Inserting == {loc[t].h : t \in {u \in Tasks : pc[u] \in {"aw_entry", "aw_insert"}}}

PoppedHandles(id) == {popped[id][n].h : n \in 1..Len(popped[id])}

\* C6: under every interleaving of the steps of concurrent calls, the table
\* holds exactly the registered handles not yet popped, in registration
\* order; no handle is popped twice; two calls never hold the same handle;
\* and a call works on an entry only while it holds the shard's lock.
C6_AtomicCalls ==
    /\ \A id \in Ids :
          /\ Len(popped[id]) <= Len(registered[id])
          /\ (IF id \in Keys THEN pending[id] ELSE <<>>)
                = SubSeq(registered[id], Len(popped[id]) + 1, Len(registered[id]))
          /\ Cardinality(PoppedHandles(id)) = Len(popped[id])
          /\ Cardinality(Range(registered[id])) = Len(registered[id])
    /\ UNION {Range(registered[id]) : id \in Ids} \cup Inserting = 1..Len(chans)
    /\ UNION {Range(registered[id]) : id \in Ids} \cap Inserting = {}
    /\ \A t, u \in Tasks :
          (t # u /\ pc[t] = "rr_send" /\ pc[u] = "rr_send") => loc[t].h # loc[u].h
    /\ \A t \in Tasks :
          pc[t] \in {"aw_insert", "rr_pop"} => lock[ShardOf(loc[t].id)] = t
    /\ \A h \in 1..Len(chans) :
          chans[h].rx = "resolved" => h \in PoppedHandles(chans[h].id)

\* one call waits at the entry of an identifier while another call holds it
C6_Witness ==
    \E t, u \in Tasks :
        /\ t # u
        /\ pc[t] \in {"aw_entry", "rr_entry"}
        /\ pc[u] \in {"aw_insert", "rr_pop"}
        /\ loc[t].id = loc[u].id
        /\ lock[ShardOf(loc[u].id)] = u

AllIdle == \A t \in Tasks : pc[t] = "idle"

C8_NoSendAfterExit ==
    [][state = Exited
       => ~(sinkLast = "ready_ok" /\ sinkLast' \in {"sending", "sent"})]_vars

\* C8 (amended): once the state is Exited every poll_ready fails with
\* ExitedError, so no new readiness is granted; start_send itself does not
\* read the state, so the only response registered after exit is one whose
\* poll_ready succeeded before the state became Exited.
C8_ExitedRefusesReadiness ==
    /\ [](state = Exited => PollReadyResult = "ready_err")
    /\ [][state = Exited
          => /\ (sinkLast' = "ready_ok" => sinkLast = "ready_ok")
             /\ (sinkLast' \in {"sending", "sent"}
                   => sinkLast \in {"ready_ok", "sending", "sent"})]_vars

\* poll_ready has failed after exit
C8_Witness ==
    /\ state = Exited
    /\ sinkLast = "ready_err"

\* C9: in every step taken while the state is Exited the stream yields no
\* request and removes nothing from the channel, a poll result that changes
\* changes to end-of-sequence, also with requests queued and senders alive,
\* and the state stays Exited.
C9_ExitedEndsStream ==
    /\ [](state = Exited => PollNextResult.res = "None" /\ PollNextResult.item = <<>>)
    /\ [][state = Exited
          => /\ yielded' = yielded
             /\ rxInner' = rxInner
             /\ Len(queue') >= Len(queue)
             /\ SubSeq(queue', 1, Len(queue)) = queue
             /\ (lastPoll' # lastPoll => lastPoll' = "None")
             /\ state' = Exited]_vars

\* end-of-sequence was reported after exit with a request still queued and
\* a producer alive
C9_Witness ==
    /\ state = Exited
    /\ queue # <<>>
    /\ sendersAlive
    /\ rxInner
    /\ lastPoll = "None"

\* C10: while the state is not Exited the stream yields the requests in the
\* order they were sent, each once; with the channel empty it is pending
\* while a producer is alive and reports end-of-sequence only after every
\* producer is gone and the queue is drained.
C10_YieldsInSendOrder ==
    /\ [](/\ yielded \o queue = sentLog
          /\ (lastPoll = "None" => state = Exited \/ ~sendersAlive)
          /\ (~rxInner => ~sendersAlive /\ queue = <<>>)
          /\ (state # Exited =>
                PollNextResult.res = (IF queue # <<>> THEN "Some"
                                      ELSE IF sendersAlive THEN "Pending"
                                      ELSE "None")))
    /\ [][/\ (yielded' # yielded
                => /\ state # Exited
                   /\ queue # <<>>
                   /\ yielded' = Append(yielded, Head(queue))
                   /\ queue' = Tail(queue)
                   /\ lastPoll' = "Some")
          /\ ((lastPoll' = "Pending" /\ lastPoll # "Pending")
                => state # Exited /\ sendersAlive /\ queue = <<>> /\ queue' = queue)
          /\ ((lastPoll' = "None" /\ lastPoll # "None" /\ state # Exited)
                => ~sendersAlive /\ queue = <<>> /\ ~rxInner')]_vars

\* two different requests were yielded in send order, the producers were
\* dropped, and the drained stream then ended
C10_Witness ==
    /\ state # Exited
    /\ Len(sentLog) = 2
    /\ sentLog[1] # sentLog[2]
    /\ yielded = sentLog
    /\ ~sendersAlive
    /\ ~rxInner
    /\ lastPoll = "None"

\* C11: the sink never blocks or buffers. While the state is not Exited
\* poll_ready is ready with success; start_send runs one register_response
\* with the given response and returns only after it has returned, so a
\* response is held by the sink only while that call runs and has then either
\* fulfilled one waiter or been discarded; poll_flush and poll_close succeed
\* at once and touch nothing.
C11_SinkNeverBlocksOrBuffers ==
    /\ [](state # Exited => PollReadyResult = "ready_ok")
    /\ [](IF sinkLast = "sending"
          THEN /\ pc[Transport] \in {"rr_entry", "rr_pop", "rr_send"}
               /\ loc[Transport].via = "sink"
               /\ loc[Transport].r \in ResponseMessage
          ELSE /\ pc[Transport] = "idle"
               /\ loc[Transport] = NoLocals)
    /\ [][(sinkLast = "ready_ok" /\ sinkLast' = "sent")
          => lastWarn' = "null" /\ chans' = chans /\ pending' = pending]_vars
    /\ [][(sinkLast = "ready_ok" /\ sinkLast' = "sending")
          => /\ loc'[Transport].r.id = loc'[Transport].id
             /\ loc'[Transport].id # Null
             /\ chans' = chans /\ pending' = pending]_vars
    /\ [][(sinkLast = "sending" /\ sinkLast' = "sent")
          => \/ /\ lastWarn' = loc[Transport].id
                /\ chans' = chans
                /\ pending' = pending
             \/ /\ chans' = [chans EXCEPT ![loc[Transport].h] =
                               [@ EXCEPT !.rx = "resolved", !.val = loc[Transport].r]]
                /\ chans' # chans
                /\ lastWarn' = lastWarn]_vars
    /\ [][(sinkLast' \in {"flushed", "closed"} /\ sinkLast' # sinkLast)
          => /\ sinkLast # "sending"
             /\ UNCHANGED <<tableVars, streamVars, state>>]_vars

\* the sink fulfilled a waiter with one response, discarded another, and was
\* then closed, all before exit
C11_Witness ==
    /\ state # Exited
    /\ sinkLast = "closed"
    /\ lastWarn # "none"
    /\ \E h \in 1..Len(chans) : chans[h].rx = "resolved"

\* C12: when register_response has popped a handle whose awaitable was
\* dropped, the call ends in the panic "receiver already dropped": the handle
\* is already out of the table, no channel receives the response, the task
\* keeps nothing of it, and the table is left as the pop left it, so the
\* response reaches no later waiter of the identifier.
C12_DroppedReceiverPanics ==
    /\ [](\A t \in Tasks :
            /\ (pc[t] = "rr_send"
                  => \A k \in Keys : loc[t].h \notin Range(pending[k]))
            /\ (pc[t] = "panicked" => loc[t] = NoLocals /\ \A s \in DOMAIN lock : lock[s] # t))
    /\ [](\A h \in 1..Len(chans) : chans[h].rx = "dropped" => chans[h].val = NoResponse)
    /\ [][\A t \in Tasks :
            /\ (pc[t] = "rr_send" /\ pc'[t] # "rr_send" /\ chans[loc[t].h].rx = "dropped")
                 => /\ pc'[t] = "panicked"
                    /\ chans' = chans
                    /\ pending' = pending
                    /\ lastWarn' = lastWarn
            /\ (pc[t] = "panicked" => pc'[t] = "panicked")
            /\ (pc'[t] = "panicked" /\ pc[t] # "panicked"
                 => pc[t] = "rr_send" /\ chans[loc[t].h].rx = "dropped")]_vars

\* a call panicked on the abandoned first handle of an identifier while a
\* later waiter of the same identifier is still registered and waiting
C12_Witness ==
    \E id \in NonNullIds, t \in Tasks :
        /\ pc[t] = "panicked"
        /\ Len(registered[id]) = 2
        /\ Len(popped[id]) = 1
        /\ chans[registered[id][1]].rx = "dropped"
        /\ chans[registered[id][2]].rx = "waiting"
        /\ pending[id] = <<registered[id][2]>>

\* the handles of id still in the table, oldest first
Listed(id) == IF id \in Keys THEN pending[id] ELSE <<>>

\* C18: dropping the awaitable before it resolves changes nothing in the
\* pending table: the handle keeps its place in its identifier's list, the
\* list is always the registered handles not yet popped whether their
\* awaitables are alive or not, and the pop of a register_response takes the
\* head of the list also when that head is abandoned.
C18_DropLeavesTable ==
    /\ [](\A id \in NonNullIds :
            Listed(id) = SubSeq(registered[id], Len(popped[id]) + 1, Len(registered[id])))
    /\ [][(\E h \in 1..Len(chans) : chans[h].rx = "waiting" /\ chans'[h].rx = "dropped")
          => /\ pending' = pending
             /\ registered' = registered
             /\ popped' = popped
             /\ lock' = lock
             /\ pc' = pc]_vars
    /\ [][\A t \in Tasks :
            (pc[t] = "rr_pop" /\ pc'[t] = "rr_send")
              => /\ loc'[t].h = Head(pending[loc[t].id])
                 /\ Listed(loc[t].id)' = Tail(pending[loc[t].id])]_vars

\* a register_response has popped the abandoned first handle while the later
\* waiter of the same identifier is still listed
C18_Witness ==
    \E id \in NonNullIds, t \in Tasks :
        /\ pc[t] = "rr_send"
        /\ loc[t].id = id
        /\ chans[loc[t].h].rx = "dropped"
        /\ Len(registered[id]) = 2
        /\ loc[t].h = registered[id][1]
        /\ Listed(id) = <<registered[id][2]>>
        /\ chans[registered[id][2]].rx = "waiting"

C20_CoreNeverChangesState ==
    /\ [][state' # state
          => /\ UNCHANGED <<tableVars, streamVars, sinkLast>>
             /\ StateRank(state') > StateRank(state)]_vars
    /\ [][state = Exited => state' = Exited]_vars

\* the stream yielded a request, the sink resolved a waiter and was flushed,
\* and the state is still the one the dispatch layer set
C20_Witness ==
    /\ state = "ShutDown"
    /\ lastPoll = "Some"
    /\ sinkLast = "flushed"
    /\ \E h \in 1..Len(chans) : chans[h].rx = "resolved"

\* the keys of an object in document order, and the value under a key
KeysOf(w) == [i \in 1..Len(w) |-> w[i].k]
HasKey(w, k) == \E i \in 1..Len(w) : w[i].k = k
Lookup(w, k) == IF HasKey(w, k) THEN w[CHOOSE i \in 1..Len(w) : w[i].k = k].v ELSE Absent

\* C13 as stated: deserializing the serialization of an envelope x for the
\* same descriptor succeeds and gives x itself: same identifier, same params
\* presence and content, same outcome.
C13_RoundTripIdentity ==
    env.op = "roundtrip" => env.out.ok /\ env.out.val = env.x

\* C13 (amended): deserializing the serialization of an envelope x for the
\* same descriptor succeeds and gives the same identifier, the same outcome
\* and params of the same JSON value; present params come back present with
\* the same content unless their serialized form is null (unit params), and
\* those come back absent.
C13_RoundTripByValue ==
    env.op = "roundtrip" =>
        /\ env.out.ok
        /\ (env.kind = "response" => env.out.val = env.x)
        /\ (env.kind = "request" => env.out.val.id = env.x.id)
        /\ (env.kind \in {"request", "notification"} =>
              /\ SerializeOption(ParamsType[env.desc], env.out.val.params)
                   = SerializeOption(ParamsType[env.desc], env.x.params)
              /\ env.out.val.params =
                   (IF SerializeOption(ParamsType[env.desc], env.x.params) = JNull
                    THEN <<>> ELSE env.x.params))

\* a request with present unit params went through the round trip and came
\* back with absent params
C13_Witness ==
    /\ env.op = "roundtrip"
    /\ env.kind = "request"
    /\ env.x.params = <<"()">>
    /\ Lookup(env.wire, "params") = JNull
    /\ env.out.ok
    /\ env.out.val.params = <<>>
    /\ env.out.val.id = env.x.id

\* C14 as stated: deserializing a response object fails when it has both a
\* result and an error key, fails when it has neither, and succeeds only
\* with exactly one of them, giving Ok for result and Err for error.
C14_ResultErrorExclusive ==
    (env.op = "decoded" /\ env.kind = "response") =>
        /\ (HasKey(env.wire, "result") /\ HasKey(env.wire, "error") => ~env.out.ok)
        /\ (~HasKey(env.wire, "result") /\ ~HasKey(env.wire, "error") => ~env.out.ok)
        /\ (env.out.ok =>
              /\ HasKey(env.wire, "result") # HasKey(env.wire, "error")
              /\ env.out.val.kind.tag = (IF HasKey(env.wire, "result") THEN "Ok" ELSE "Err"))

\* C14, what the flattened enum does: with neither key the response fails;
\* with one or both, the first of the two keys in document order decides and
\* the other entry is ignored.
C14_FirstKeyDecides ==
    (env.op = "decoded" /\ env.kind = "response") =>
        /\ (~HasKey(env.wire, "result") /\ ~HasKey(env.wire, "error") => ~env.out.ok)
        /\ (env.out.ok =>
              LET first == Head(SelectSeq(KeysOf(env.wire), LAMBDA k : k \in {"result", "error"}))
              IN  env.out.val.kind.tag = (IF first = "result" THEN "Ok" ELSE "Err"))

\* a response object with both keys was deserialized successfully
C14_Witness ==
    /\ env.op = "decoded"
    /\ env.kind = "response"
    /\ HasKey(env.wire, "result")
    /\ HasKey(env.wire, "error")
    /\ env.out.ok

\* what an input object says about the fields read before the method check
VersionOk(w) == Lookup(w, "jsonrpc") = SerializeVersion
IdOk(kind, w) == kind = "notification" \/ Lookup(w, "id").t \in {"num", "str"}
ParamsDecode(d, w) ==
    \/ Lookup(w, "params") \in {Absent, JNull}
    \/ FromJson(ParamsType[d], Lookup(w, "params")).ok
UnexpectedMethod(received, d) ==
    [kind |-> "unknown_variant", got |-> received, expected |-> METHOD[d]]
VersionMismatch(received) ==
    [kind |-> "unknown_variant", got |-> received, expected |-> JSON_RPC_VERSION_STR]

\* C15 as stated: a request or notification whose method string differs from
\* the descriptor's METHOD fails with the unexpected-method error naming the
\* received and the expected value, whatever the params are, and the method
\* check passes only for equal strings.
C15_MismatchIsUnexpectedMethod ==
    (/\ env.op = "decoded"
     /\ env.kind \in {"request", "notification"}
     /\ VersionOk(env.wire)
     /\ IdOk(env.kind, env.wire)
     /\ Lookup(env.wire, "method").t = "str")
    => IF Lookup(env.wire, "method").v # METHOD[env.desc]
       THEN /\ ~env.out.ok
            /\ env.out.err = UnexpectedMethod(Lookup(env.wire, "method").v, env.desc)
       ELSE env.out.err # UnexpectedMethod(Lookup(env.wire, "method").v, env.desc)

\* C15 (amended): a request or notification whose method string differs from
\* the descriptor's METHOD always fails, whatever the params are; the error
\* is the unexpected-method error naming the received and the expected value
\* when the version tag, the identifier and the params decode (params absent,
\* null or structurally valid), and the params' decoding error when the
\* params are not valid for the descriptor, since the fields are decoded
\* before the method is compared; deserialization succeeds only for equal
\* strings.
C15_MethodGuard ==
    (/\ env.op = "decoded"
     /\ env.kind \in {"request", "notification"}
     /\ Lookup(env.wire, "method").t = "str")
    => LET m == Lookup(env.wire, "method").v
           rest == VersionOk(env.wire) /\ IdOk(env.kind, env.wire)
       IN  /\ (env.out.ok => m = METHOD[env.desc])
           /\ (m = METHOD[env.desc] => env.out.err # UnexpectedMethod(m, env.desc))
           /\ (m # METHOD[env.desc] =>
                 /\ ~env.out.ok
                 /\ (rest /\ ParamsDecode(env.desc, env.wire)
                       => env.out.err = UnexpectedMethod(m, env.desc))
                 /\ (rest /\ ~ParamsDecode(env.desc, env.wire)
                       => /\ env.out.err.kind = "invalid_type"
                          /\ env.out.err.expected = ParamsType[env.desc]))

\* a request naming another method, with params that are structurally valid
\* for the descriptor, failed with the unexpected-method error
C15_Witness ==
    /\ env.op = "decoded"
    /\ env.kind = "request"
    /\ VersionOk(env.wire)
    /\ IdOk(env.kind, env.wire)
    /\ Lookup(env.wire, "method").t = "str"
    /\ Lookup(env.wire, "method").v # METHOD[env.desc]
    /\ Lookup(env.wire, "params").t = "obj"
    /\ FromJson(ParamsType[env.desc], Lookup(env.wire, "params")).ok
    /\ ~env.out.ok
    /\ env.out.err = UnexpectedMethod(Lookup(env.wire, "method").v, env.desc)

\* every other named field of the object decodes for the envelope
OthersDecode(kind, d, w) ==
    \A i \in 1..Len(w) :
        (w[i].k \in Range(FieldsOf(kind)) /\ w[i].k # "jsonrpc")
          => DecodeField(kind, d, w[i].k, w[i].v).ok

\* C16: an object whose jsonrpc is a string other than "2.0" never
\* deserializes to an envelope of any kind, and when its other fields decode
\* the failure is the version-mismatch error naming the received string and
\* "2.0", also when the method differs; a deserialization that succeeds read
\* exactly "2.0"; every serialized envelope starts with jsonrpc "2.0".
C16_VersionGuard ==
    /\ (env.op = "decoded" /\ Lookup(env.wire, "jsonrpc").t = "str"
                           /\ Lookup(env.wire, "jsonrpc").v # JSON_RPC_VERSION_STR)
         => /\ ~env.out.ok
            /\ (OthersDecode(env.kind, env.desc, env.wire)
                  => env.out.err = VersionMismatch(Lookup(env.wire, "jsonrpc").v))
    /\ (env.op = "decoded" /\ env.out.ok => Lookup(env.wire, "jsonrpc") = JStr("2.0"))
    /\ (env.op \in {"serialized", "roundtrip"} => env.wire[1] = Entry("jsonrpc", JStr("2.0")))

\* a request that is valid for its descriptor except for the version "1.0"
\* failed with the version-mismatch error
C16_Witness ==
    /\ env.op = "decoded"
    /\ env.kind = "request"
    /\ Lookup(env.wire, "jsonrpc") = JStr("1.0")
    /\ IdOk(env.kind, env.wire)
    /\ Lookup(env.wire, "method") = JStr(METHOD[env.desc])
    /\ Lookup(env.wire, "params").t = "obj"
    /\ ParamsDecode(env.desc, env.wire)
    /\ ~env.out.ok
    /\ env.out.err = VersionMismatch("1.0")

\* C17: the serialization of a request or notification has the keys jsonrpc,
\* id (requests) and method, with the version, the identifier and the
\* descriptor's METHOD, and after them the key params exactly when the
\* params are present, holding their value; absent params give no params
\* key, not even one with value null.
C17_ParamsOmittedWhenAbsent ==
    (env.op \in {"serialized", "roundtrip"} /\ env.kind \in {"request", "notification"})
    => /\ KeysOf(env.wire) =
            (IF env.kind = "request" THEN <<"jsonrpc", "id", "method">>
             ELSE <<"jsonrpc", "method">>)
            \o (IF env.x.params = <<>> THEN <<>> ELSE <<"params">>)
       /\ Lookup(env.wire, "jsonrpc") = JStr("2.0")
       /\ Lookup(env.wire, "method") = JStr(METHOD[env.desc])
       /\ (env.kind = "request" => Lookup(env.wire, "id") = SerializeId(env.x.id))
       /\ (env.x.params # <<>>
             => Lookup(env.wire, "params") = ToJson(ParamsType[env.desc], env.x.params[1]))
       /\ (env.x.params = <<>> => ~HasKey(env.wire, "params"))

\* a request without params was serialized to the three keys jsonrpc, id, method
C17_Witness ==
    /\ env.op = "serialized"
    /\ env.kind = "request"
    /\ env.x.params = <<>>
    /\ Len(env.wire) = 3
    /\ ~HasKey(env.wire, "params")

\* C21: end-of-sequence is permanent. Once poll_next has returned
\* end-of-sequence, because the state was Exited or because the channel was
\* closed and drained, the next poll_next returns end-of-sequence again in
\* every later state and no further request is yielded, the state never
\* leaving Exited.
C21_EndOfSequencePermanent ==
    /\ [](lastPoll = "None"
            => /\ state = Exited \/ RxIsTerminated
               /\ PollNextResult.res = "None"
               /\ PollNextResult.item = <<>>)
    /\ [][lastPoll = "None" => lastPoll' = "None" /\ yielded' = yielded]_vars

\* the stream yielded a request and then ended at exit with a further
\* request queued and a producer alive
C21_Witness ==
    /\ lastPoll = "None"
    /\ state = Exited
    /\ Len(yielded) = 1
    /\ queue # <<>>
    /\ sendersAlive

\* C22 as stated: is_terminated agrees with poll_next: after poll_next has
\* returned end-of-sequence is_terminated is true, and is_terminated is true
\* only when poll_next can no longer yield a request.
C22_TerminatedAgreesWithPoll ==
    /\ (lastPoll = "None" => IsTerminated)
    /\ (IsTerminated => PollNextResult.res = "None" /\ PollNextResult.item = <<>>)

\* C22, what the code does: is_terminated is the channel's own flag, so it
\* is true only when poll_next can no longer yield, and after an
\* end-of-sequence it is true exactly when the channel was closed and
\* drained; an end-of-sequence due to the Exited state leaves it false.
C22_TerminatedIsChannelFlag ==
    /\ (IsTerminated => PollNextResult.res = "None" /\ PollNextResult.item = <<>>)
    /\ (IsTerminated <=> ~rxInner)
    /\ (IsTerminated => ~sendersAlive /\ queue = <<>>)
    /\ (lastPoll = "None" /\ ~IsTerminated => state = Exited)

\* poll_next has returned end-of-sequence at exit and is_terminated is false
C22_Witness ==
    /\ state = Exited
    /\ lastPoll = "None"
    /\ ~IsTerminated
====
